---- MODULE Spec2Model ----
(***************************************************************************)
(* A model of mt.py, the Streamlit dashboard for stock 688795.             *)
(*                                                                         *)
(* The script is re-run top to bottom on every interaction.  Its two       *)
(* fetchers are memoized by st.cache_data: get_a_stock_data (ttl 300 s,    *)
(* keyed by stock_code and period) and get_fundamental_data_dynamic        *)
(* (ttl 3600 s, keyed by stock_code).  The provider (akshare) is the       *)
(* environment: each of its calls answers with one of a few outcomes.      *)
(*                                                                         *)
(* Specifications:                                                         *)
(*   Spec        one dashboard session: script runs, the refresh button,   *)
(*               the passing of time                                       *)
(*   SpecFetch   the bodies of the two fetchers over every provider answer *)
(*   SpecPredict ai_price_prediction over the tables get_a_stock_data      *)
(*               returns                                                   *)
(*   SpecConc    several sessions reading and filling the cache entry      *)
(*   SpecBand    the prediction table ai_price_prediction builds from the  *)
(*               regression's outputs                                      *)
(*   SpecRisk    calculate_risk_metrics_dynamic and the advice block       *)
(*               render_risk_assessment_dynamic shows for its result       *)
(***************************************************************************)
EXTENDS Integers, Sequences, FiniteSets, TLC

VARIABLES
    now,        \* the wall clock, in seconds
    histCache,  \* st.cache_data store of get_a_stock_data: key -> entry
    fundCache,  \* st.cache_data store of get_fundamental_data_dynamic
    pc,         \* at: "idle", or "rerun" between the button's st.rerun() and the
                \* run it asks for; hist, fund: the keys that press cleared
    view,       \* what the script run that just ended called and received
                \* (none when the last step was no run)
    history,    \* per key the last table the provider delivered, and the
                \* number of failed fetches in a row
    inp,        \* SpecFetch, SpecPredict: the arguments and provider answers
    out,        \* SpecFetch, SpecPredict: what the function under study returned
    sess,       \* SpecConc: each session's position and local variables
    heap,       \* SpecConc: the objects (returned tuples) by reference
    store       \* SpecConc: the cache entry of the default key, by reference

vars == <<now, histCache, fundCache, pc, view, history, inp, out, sess, heap, store>>

----------------------------------------------------------------------------
(* Program constants *)

TTL_HIST == 300
TTL_FUND == 3600
FINA_ATTEMPTS == 2
FINA_SLEEP == 1
MIN_PRED_ROWS == 60
MA5_WINDOW == 5
MA10_WINDOW == 10
MA20_WINDOW == 20
MA60_WINDOW == 60
RSI_WINDOW == 14
PCT_CHANGE_LAG == 1
DEFAULT_PREDICT_DAYS == 30

(* Bounds of the model *)

\* distinct contents a fetched (or simulated) table may have
NumData == 2

DEFAULT_CODE == "688795"
\* the sidebar's free-text stock code: the default, and a text no exchange lists
Codes == {DEFAULT_CODE, "abc"}
ListedCodes == {DEFAULT_CODE}
DEFAULT_NAME == "MooreThreads"

\* render_sidebar's period_options
Periods == {"30", "90", "180", "240"}

\* int(period)
PeriodDays(period) ==
    CASE period = "30" -> 30
      [] period = "90" -> 90
      [] period = "180" -> 180
      [] period = "240" -> 240

Max(S) == CHOOSE x \in S : \A y \in S : y <= x

----------------------------------------------------------------------------
(* Tables *)

NoTable == [kind |-> "none", rows |-> 0, data |-> 0, firstValid |-> 0]

\* df = calculate_technical_indicators(df): the rolling columns are NaN on the
\* first window-1 rows, pct_change on the first row; firstValid is the first row
\* (from 1) no indicator column of which is NaN
calculate_technical_indicators(df) ==
    [df EXCEPT !.firstValid =
        Max({MA5_WINDOW, MA10_WINDOW, MA20_WINDOW, MA60_WINDOW, RSI_WINDOW,
             PCT_CHANGE_LAG + 1})]

\* len(df.dropna())
DropnaLen(df) ==
    IF df.rows >= df.firstValid /\ df.firstValid > 0
    THEN df.rows - df.firstValid + 1
    ELSE 0

----------------------------------------------------------------------------
(* The provider's answers to ak.stock_zh_a_hist *)

\* the rows of a non-empty answer: at most one per calendar day asked for
HistAnswers(code, period, rowChoices) ==
    {[kind |-> k, rows |-> 0, data |-> 0] : k \in {"exception", "timeout", "empty"}}
    \cup
    (IF code \in ListedCodes
     THEN {[kind |-> k, rows |-> r, data |-> d] :
              k \in {"ok", "missing_columns"},
              r \in rowChoices \cap (1..PeriodDays(period)),
              d \in 1..NumData}
     ELSE {})

\* the body of the try block: what it leaves (exc = "none") or raises
HistTry(stock_code, period, ans) ==
    IF ans.kind \in {"exception", "timeout"}
    THEN [exc |-> ans.kind, df |-> NoTable, calls |-> [hist |-> 1]]
    ELSE IF ans.kind = "empty"
    THEN [exc |-> "ValueError", df |-> NoTable, calls |-> [hist |-> 1]]
    ELSE IF ans.kind = "missing_columns"
    THEN [exc |-> "KeyError", df |-> NoTable, calls |-> [hist |-> 1]]
    ELSE [exc |-> "none",
          df |-> calculate_technical_indicators(
                    [kind |-> "real", rows |-> ans.rows, data |-> ans.data,
                     firstValid |-> 0]),
          calls |-> [hist |-> 1]]

\* the except block: the warning and the simulated table of int(period) rows
HistExcept(period, exc, rnd) ==
    [status |-> "returned",
     df |-> calculate_technical_indicators(
               [kind |-> "sim", rows |-> PeriodDays(period), data |-> rnd,
                firstValid |-> 0]),
     is_real |-> FALSE,
     warning |-> exc,
     calls |-> [hist |-> 1],
     waits |-> << >>]

\* a slip that would let the provider's fault through
get_a_stock_data_uncaught(stock_code, period, ans, rnd) ==
    LET t == HistTry(stock_code, period, ans) IN
    IF t.exc = "none"
    THEN [status |-> "returned", df |-> t.df, is_real |-> TRUE,
          warning |-> "none", calls |-> t.calls, waits |-> << >>]
    ELSE [status |-> "raised", df |-> NoTable, is_real |-> FALSE,
          warning |-> "none", calls |-> t.calls, waits |-> << >>]

\* a slip that would drop the df.empty test
get_a_stock_data_noEmptyTest(stock_code, period, ans, rnd) ==
    IF ans.kind = "empty"
    THEN [status |-> "returned",
          df |-> calculate_technical_indicators(
                    [kind |-> "real", rows |-> 0, data |-> 0, firstValid |-> 0]),
          is_real |-> TRUE, warning |-> "none", calls |-> [hist |-> 1], waits |-> << >>]
    ELSE LET t == HistTry(stock_code, period, ans) IN
         IF t.exc = "none"
         THEN [status |-> "returned", df |-> t.df, is_real |-> TRUE,
               warning |-> "none", calls |-> t.calls, waits |-> << >>]
         ELSE HistExcept(period, t.exc, rnd)

\* a slip that would warn only from the second failure on
get_a_stock_data_quiet(stock_code, period, ans, rnd) ==
    LET t == HistTry(stock_code, period, ans) IN
    IF t.exc = "none"
    THEN [status |-> "returned", df |-> t.df, is_real |-> TRUE,
          warning |-> "none", calls |-> t.calls, waits |-> << >>]
    ELSE [HistExcept(period, t.exc, rnd) EXCEPT !.warning = "none"]

\* the body of get_a_stock_data, run on a cache miss; rnd is np.random's draw
get_a_stock_data(stock_code, period, ans, rnd) ==
    LET t == HistTry(stock_code, period, ans) IN
    IF t.exc = "none"
    THEN [status |-> "returned", df |-> t.df, is_real |-> TRUE,
          warning |-> "none", calls |-> t.calls, waits |-> << >>]
    ELSE HistExcept(period, t.exc, rnd)

----------------------------------------------------------------------------
(* The provider's answers to ak.stock_info_a_code_name and                 *)
(* ak.stock_financial_analysis_indicator                                   *)

InfoAnswers == {"exception", "empty", "ok"}
\* "renamed": a table without the columns read; "malformed": a table whose
\* values are not numbers
FinaAnswers == {"exception", "empty", "ok", "renamed", "malformed"}
CmpAnswers == {"exception", "empty", "ok"}
\* semiconductor_stocks
CmpStocks == <<"688256", "688041", "688981">>

SeqsOf(S, n) == [1..n -> S]

\* for _ in range(2): try: fina_data = ...; if not fina_data.empty: break
\*                    except: time.sleep(1)
RECURSIVE FinaLoop(_, _, _, _, _)
FinaLoop(answers, i, fina_data, calls, waits) ==
    IF i > FINA_ATTEMPTS
    THEN [fina_data |-> fina_data, calls |-> calls, waits |-> waits]
    ELSE IF answers[i] = "exception"
    THEN FinaLoop(answers, i + 1, fina_data, calls + 1, Append(waits, FINA_SLEEP))
    ELSE IF answers[i] = "empty"
    THEN FinaLoop(answers, i + 1, "empty", calls + 1, waits)
    ELSE [fina_data |-> answers[i], calls |-> calls + 1, waits |-> waits]

\* one pass of the loop over semiconductor_stocks: the entry it stores
CmpEntry(ans) == IF ans = "ok" THEN "data" ELSE "NA"

\* the except block of get_fundamental_data_dynamic
FundExcept(stock_code, exc, calls, waits) ==
    [status |-> "returned", kind |-> "fallback", code |-> stock_code,
     name |-> DEFAULT_NAME, metrics |-> "updating",
     cmp |-> [i \in 1..Len(CmpStocks) |-> "NA"],
     warning |-> exc, calls |-> calls, waits |-> waits]

\* the body of the try block of get_fundamental_data_dynamic
FundTry(stock_code, info, fina, cmp) ==
    IF info = "exception"
    THEN [exc |-> "exception", calls |-> [info |-> 1, fina |-> 0, cmp |-> 0],
          waits |-> << >>]
    ELSE
    LET stock_name == IF info = "ok" /\ stock_code \in ListedCodes
                      THEN "provider_name" ELSE DEFAULT_NAME
        loop == FinaLoop(fina, 1, "None", 0, << >>)
    IN  IF loop.fina_data = "malformed"
        THEN [exc |-> "TypeError",
              calls |-> [info |-> 1, fina |-> loop.calls, cmp |-> 0],
              waits |-> loop.waits]
        ELSE [exc |-> "none",
              name |-> stock_name,
              metrics |-> IF loop.fina_data = "ok" THEN "filled" ELSE "updating",
              cmp |-> [i \in 1..Len(CmpStocks) |-> CmpEntry(cmp[i])],
              calls |-> [info |-> 1, fina |-> loop.calls, cmp |-> Len(CmpStocks)],
              waits |-> loop.waits]

\* the body of get_fundamental_data_dynamic, run on a cache miss
get_fundamental_data_dynamic(stock_code, info, fina, cmp) ==
    LET t == FundTry(stock_code, info, fina, cmp) IN
    IF t.exc = "none"
    THEN [status |-> "returned", kind |-> "live", code |-> stock_code,
          name |-> t.name, metrics |-> t.metrics, cmp |-> t.cmp,
          warning |-> "none", calls |-> t.calls, waits |-> t.waits]
    ELSE FundExcept(stock_code, t.exc, t.calls, t.waits)

----------------------------------------------------------------------------
(* ai_price_prediction *)

\* the sidebar's slider: 10 to 60 in steps of 5
PredictDays == {10 + 5 * i : i \in 0..10}

\* df_pred = df.copy().dropna(); fewer than 60 rows left: no prediction.
\* fit is what the scaler, the split and the regression make of the rows:
\* "raises", "low_score" (test R2 below 0.3) or "ok"
ai_price_prediction(df, predict_days, fit) ==
    LET n == DropnaLen(df) IN
    IF n < MIN_PRED_ROWS
    THEN [result |-> "None", conclusion |-> "insufficient_data", rows |-> 0]
    ELSE IF n - predict_days < 2 \/ fit = "raises"
    THEN [result |-> "None", conclusion |-> "failed", rows |-> 0]
    ELSE IF fit = "low_score"
    THEN [result |-> "None", conclusion |-> "low_score", rows |-> 0]
    ELSE [result |-> "table", conclusion |-> "predicted", rows |-> predict_days]

FitAnswers == {"raises", "low_score", "ok"}

----------------------------------------------------------------------------
(* The state outside the specification at hand stays as constructed *)

HistKeys == Codes \X Periods
NoEntry == [present |-> FALSE]
NoView == [run |-> 0]
Idle == [at |-> "idle", hist |-> {}, fund |-> {}]
NoCall == [fn |-> "none"]

CacheInit ==
    /\ now = 0
    /\ histCache = [k \in HistKeys |-> NoEntry]
    /\ fundCache = [c \in Codes |-> NoEntry]
    /\ pc = Idle
    /\ view = NoView
    /\ history = [good |-> [k \in HistKeys |-> NoTable], fails |-> 0]

CallInit == inp = NoCall /\ out = NoCall

ConcInit == sess = << >> /\ heap = << >> /\ store = NoEntry

cacheVars == <<now, histCache, fundCache, pc, view, history>>
callVars == <<inp, out>>
concVars == <<sess, heap, store>>

----------------------------------------------------------------------------
(* st.cache_data *)

\* a slip that would take every entry for expired
Expired_always(entry, ttl, time) == time - entry.storedAt >= 0

\* an entry is served while less than ttl seconds old
Expired(entry, ttl, time) == time - entry.storedAt >= ttl

Hit(entry, ttl) == entry.present /\ ~Expired(entry, ttl, now)

\* the store drops the entries that reached their time to live
Purged(cache, ttl, time) ==
    [k \in DOMAIN cache |->
        IF cache[k].present /\ Expired(cache[k], ttl, time) THEN NoEntry ELSE cache[k]]

\* what the fetcher returned, and the st.warning it emitted, replayed on a hit
NewEntry(value, warning) ==
    [present |-> TRUE, value |-> value, warning |-> warning, storedAt |-> now]

\* the keys that have an entry
Present(cache) == {k \in DOMAIN cache : cache[k].present}

\* <cached function>.clear(): every key of that function
Cleared(cache) == [k \in DOMAIN cache |-> NoEntry]

----------------------------------------------------------------------------
(* Spec: one session of the dashboard *)

\* the instants at which the operator acts
Instants == {0, TTL_HIST \div 2, TTL_HIST, TTL_FUND}

\* the sidebar settings (stock code, period) chosen in Spec
SessionKeys == {<<DEFAULT_CODE, "90">>, <<DEFAULT_CODE, "30">>, <<"abc", "90">>}

\* the answers of ak.stock_zh_a_hist tried in the session specifications, its
\* table of one row (SpecFetch tries the others)
SessionHistAnswers(code, period) ==
    {a \in HistAnswers(code, period, {1}) : a.kind \in {"exception", "empty", "ok"}}

\* the answers to get_fundamental_data_dynamic's calls tried in the session
\* specifications: the first call failing, and every call delivering
SessionFundAnswers ==
    {[info |-> "exception", fina |-> <<"ok", "ok">>, cmp |-> <<"ok", "ok", "ok">>],
     [info |-> "ok", fina |-> <<"ok", "ok">>, cmp |-> <<"ok", "ok", "ok">>]}

\* failed fetches of get_a_stock_data in a row are counted up to here
MaxFails == 2

Init == CacheInit /\ CallInit /\ ConcInit

Tick ==
    /\ \E t \in Instants : t > now /\ now' = t
    /\ histCache' = Purged(histCache, TTL_HIST, now')
    /\ fundCache' = Purged(fundCache, TTL_FUND, now')
    /\ view' = NoView
    /\ UNCHANGED <<pc, history, callVars, concVars>>

\* a slip that would clear the price history alone
RefreshClick_histOnly ==
    /\ pc.at = "idle"
    /\ histCache' = Cleared(histCache)
    /\ pc' = [at |-> "rerun", hist |-> Present(histCache), fund |-> Present(fundCache)]
    /\ view' = NoView
    /\ UNCHANGED <<now, fundCache, history, callVars, concVars>>

\* render_sidebar with the button pressed: both caches cleared, st.rerun()
RefreshClick ==
    /\ pc.at = "idle"
    /\ histCache' = Cleared(histCache)
    /\ fundCache' = Cleared(fundCache)
    /\ pc' = [at |-> "rerun", hist |-> Present(histCache), fund |-> Present(fundCache)]
    /\ view' = NoView
    /\ UNCHANGED <<now, history, callVars, concVars>>

\* main() with the button not pressed, for the sidebar's stock_code and period
RunMain(code, period, ans, rnd, info, fina, cmp) ==
    LET key == <<code, period>>
        histHit == Hit(histCache[key], TTL_HIST)
        got == get_a_stock_data(code, period, ans, rnd)
        hist == IF histHit THEN histCache[key]
                ELSE NewEntry([df |-> got.df, is_real |-> got.is_real], got.warning)
        fundHit == Hit(fundCache[code], TTL_FUND)
        fgot == get_fundamental_data_dynamic(code, info, fina, cmp)
        fund == IF fundHit THEN fundCache[code]
                ELSE NewEntry([kind |-> fgot.kind, name |-> fgot.name,
                               metrics |-> fgot.metrics, cmp |-> fgot.cmp],
                              fgot.warning)
    IN  /\ histCache' = [histCache EXCEPT ![key] = hist]
        /\ fundCache' = [fundCache EXCEPT ![code] = fund]
        /\ view' = [run |-> 1, code |-> code, period |-> period,
                    afterClick |-> (pc.at = "rerun"), clearedHist |-> pc.hist, clearedFund |-> pc.fund,
                    histCalled |-> ~histHit, fundCalled |-> ~fundHit,
                    df |-> hist.value.df, is_real |-> hist.value.is_real,
                    histWarning |-> hist.warning,
                    fund |-> fund.value.kind, fundWarning |-> fund.warning]
        /\ pc' = Idle
        /\ UNCHANGED <<now, callVars, concVars>>

\* the record of the fetches of get_a_stock_data a run of main() made
Track ==
    IF view'.histCalled
    THEN history' =
           [good |-> IF view'.is_real
                     THEN [history.good EXCEPT ![<<view'.code, view'.period>>] = view'.df]
                     ELSE history.good,
            fails |-> IF view'.is_real THEN 0
                      ELSE IF history.fails < MaxFails THEN history.fails + 1
                      ELSE MaxFails]
    ELSE UNCHANGED history

Next ==
    \/ Tick
    \/ RefreshClick
    \/ \E key \in SessionKeys, f \in SessionFundAnswers :
          \E ans \in SessionHistAnswers(key[1], key[2]) :
             /\ ans.data <= 1
             /\ RunMain(key[1], key[2], ans, 1, f.info, f.fina, f.cmp)
             /\ UNCHANGED history

Spec == Init /\ [][Next]_vars

----------------------------------------------------------------------------
(* SpecHistory: the session with the record of its fetches kept, on the    *)
(* default stock code, the provider's tables differing in content          *)

HistoryKeys == {<<DEFAULT_CODE, "90">>}

HistoryNext ==
    \/ Tick
    \/ RefreshClick
    \/ \E key \in HistoryKeys, rnd \in 1..NumData, f \in SessionFundAnswers :
          \E ans \in SessionHistAnswers(key[1], key[2]) :
             /\ RunMain(key[1], key[2], ans, rnd, f.info, f.fina, f.cmp)
             /\ Track

SpecHistory == Init /\ [][HistoryNext]_vars

----------------------------------------------------------------------------
(* SpecConc: several sessions on the default stock code and period.  Each  *)
(* session's script run is a thread; the cached tuple (df, is_real) is an  *)
(* object, and so is every copy handed to a reader.                        *)

NumSessions == 2
Sessions == 1..NumSessions
Refs == 1..(NumSessions + 2)
Free == [free |-> TRUE]
CONC_PERIOD == "90"

\* the smallest reference not in use
NewRef(h) == CHOOSE r \in Refs : h[r] = Free /\ \A q \in Refs : h[q] = Free => r <= q

\* objects no session and no cache entry refers to are collected
Collected(h, ss, st) ==
    [r \in Refs |->
        IF (st.present /\ st.ref = r) \/ (\E s \in Sessions : ss[s].ref = r)
        THEN h[r] ELSE Free]

\* the returned tuple as an object; extra: the columns a reader added to df
Tuple(got) == [df |-> got.df, is_real |-> got.is_real, extra |-> {}]

\* a slip that would hand every reader the cached object itself
CacheRead_shared(h, r) == [heap |-> h, ref |-> r]

\* a cache hit: the reader is given a copy of the cached tuple, a new object
CacheRead(h, r) ==
    LET n == NewRef(h) IN [heap |-> [h EXCEPT ![n] = h[r]], ref |-> n]

\* a slip that would keep the real/simulated flag apart from the table,
\* written once
StoredTuple_flagApart(old, new) ==
    IF old = Free THEN new ELSE [new EXCEPT !.is_real = old.is_real]

\* a cache write: the function's return value, table and flag, as one tuple
StoredTuple(old, new) == new

ConcStart ==
    /\ sess = [s \in Sessions |-> [pc |-> "idle", ref |-> 0]]
    /\ heap = [r \in Refs |-> Free]
    /\ store = NoEntry
    /\ CacheInit /\ CallInit

\* df, is_real = get_a_stock_data(...): the cache is looked up
Lookup(s) ==
    /\ sess[s].pc = "idle"
    /\ IF store.present
       THEN LET c == CacheRead(heap, store.ref) IN
            /\ heap' = c.heap
            /\ sess' = [sess EXCEPT ![s] = [pc |-> "got", ref |-> c.ref]]
       ELSE /\ sess' = [sess EXCEPT ![s] = [pc |-> "fetching", ref |-> 0]]
            /\ heap' = heap
    /\ UNCHANGED <<store, cacheVars, callVars>>

\* a miss: the body runs, its return value is written to the cache and returned
Fetched(s, ans, rnd) ==
    /\ sess[s].pc = "fetching"
    /\ LET t == Tuple(get_a_stock_data(DEFAULT_CODE, CONC_PERIOD, ans, rnd))
           old == IF store.present THEN heap[store.ref] ELSE Free
           r1 == NewRef(heap)
           h1 == [heap EXCEPT ![r1] = t]
           r2 == NewRef(h1)
           h2 == [h1 EXCEPT ![r2] = StoredTuple(old, t)]
           st == [present |-> TRUE, ref |-> r2]
           ss == [sess EXCEPT ![s] = [pc |-> "got", ref |-> r1]]
       IN  /\ store' = st
           /\ sess' = ss
           /\ heap' = Collected(h2, ss, st)
    /\ UNCHANGED <<cacheVars, callVars>>

\* a reader changes the table it was given (adds a column)
Mutate(s) ==
    /\ sess[s].pc = "got"
    /\ heap' = [heap EXCEPT ![sess[s].ref].extra = @ \cup {"Signal"}]
    /\ sess' = [sess EXCEPT ![s].pc = "changed"]
    /\ UNCHANGED <<store, cacheVars, callVars>>

\* the script run ends
Finish(s) ==
    /\ sess[s].pc \in {"got", "changed"}
    /\ LET ss == [sess EXCEPT ![s] = [pc |-> "idle", ref |-> 0]] IN
       /\ sess' = ss
       /\ heap' = Collected(heap, ss, store)
    /\ UNCHANGED <<store, cacheVars, callVars>>

\* the entry reaches its time to live, or the refresh button clears it
Evict ==
    /\ store.present
    /\ store' = NoEntry
    /\ heap' = Collected(heap, sess, NoEntry)
    /\ UNCHANGED <<sess, cacheVars, callVars>>

ConcNext ==
    \/ \E s \in Sessions : Lookup(s)
    \/ \E s \in Sessions, rnd \in 1..NumData :
          \E ans \in SessionHistAnswers(DEFAULT_CODE, CONC_PERIOD) : Fetched(s, ans, rnd)
    \/ \E s \in Sessions : Mutate(s)
    \/ \E s \in Sessions : Finish(s)
    \/ Evict

SpecConc == ConcStart /\ [][ConcNext]_vars

----------------------------------------------------------------------------
(* SpecFetch: the two fetchers' bodies over every provider answer *)

\* rows of the provider's table tried here
FetchRows == {1, 59, 60, 240}

FetchInit ==
    /\ \/ \E c \in Codes, p \in Periods, r \in 1..NumData :
            \E a \in HistAnswers(c, p, FetchRows) :
               inp = [fn |-> "hist", code |-> c, period |-> p, ans |-> a, rnd |-> r]
       \/ \E c \in Codes, i \in InfoAnswers :
            \E f \in SeqsOf(FinaAnswers, FINA_ATTEMPTS),
               m \in SeqsOf(CmpAnswers, Len(CmpStocks)) :
               inp = [fn |-> "fund", code |-> c, info |-> i, fina |-> f, cmp |-> m]
    /\ out = NoCall
    /\ CacheInit /\ ConcInit

CallHist ==
    /\ inp.fn = "hist" /\ out = NoCall
    /\ out' = get_a_stock_data(inp.code, inp.period, inp.ans, inp.rnd)
    /\ UNCHANGED <<inp, cacheVars, concVars>>

CallFund ==
    /\ inp.fn = "fund" /\ out = NoCall
    /\ out' = get_fundamental_data_dynamic(inp.code, inp.info, inp.fina, inp.cmp)
    /\ UNCHANGED <<inp, cacheVars, concVars>>

FetchNext == CallHist \/ CallFund

SpecFetch == FetchInit /\ [][FetchNext]_vars

----------------------------------------------------------------------------
(* SpecPredict: get_a_stock_data's table handed to ai_price_prediction *)

PredictInit ==
    /\ \E p \in Periods, d \in PredictDays, f \in FitAnswers :
         \E a \in HistAnswers(DEFAULT_CODE, p, 1..PeriodDays(p)) :
            /\ a.data <= 1
            /\ inp = [fn |-> "predict", period |-> p, ans |-> a, rnd |-> 1,
                      predict_days |-> d, fit |-> f]
    /\ out = NoCall
    /\ CacheInit /\ ConcInit

\* main: df, is_real = get_a_stock_data(...); ai_price_prediction(df, predict_days)
Predict ==
    /\ inp.fn = "predict" /\ out = NoCall
    /\ LET got == get_a_stock_data(DEFAULT_CODE, inp.period, inp.ans, inp.rnd)
       IN out' = [fn |-> "predict", df |-> got.df, is_real |-> got.is_real,
                  pred |-> ai_price_prediction(got.df, inp.predict_days, inp.fit)]
    /\ UNCHANGED <<inp, cacheVars, concVars>>

PredictNext == Predict

SpecPredict == PredictInit /\ [][PredictNext]_vars

----------------------------------------------------------------------------
(* Claims on the session (Spec, SpecHistory) *)

Served(k) == IF histCache[k].present THEN histCache[k].value.df ELSE NoTable

C7_TtlMemoized ==
    [][view' # NoView =>
        LET k == <<view'.code, view'.period>>
            fresh == histCache[k].present
                     /\ now - histCache[k].storedAt < TTL_HIST
        IN  /\ fresh => /\ ~view'.histCalled
                        /\ view'.df = histCache[k].value.df
                        /\ view'.is_real = histCache[k].value.is_real
                        /\ histCache'[k] = histCache[k]
            /\ ~fresh => view'.histCalled /\ histCache'[k].storedAt = now
            /\ \A k2 \in HistKeys \ {k} : histCache'[k2] = histCache[k2]
            /\ now' = now]_vars

\* C7 witness: a stored simulated table served again, later, without a call
C7_Witness ==
    /\ view # NoView /\ ~view.histCalled /\ ~view.is_real
    /\ histCache[<<view.code, view.period>>].storedAt < now

\* C9: the run that follows a press of the refresh button fetches both the
\* price history and the fundamental data from the provider, whatever the
\* stock code and period and however young the entries cleared.
C9_RefreshFetchesAll ==
    (view # NoView /\ view.afterClick) => (view.histCalled /\ view.fundCalled)

\* C9 witness: the run after the button, within the time to live of what an
\* earlier run had stored
C9_Witness ==
    /\ view # NoView /\ view.afterClick /\ view.histCalled /\ view.fundCalled
    /\ now < TTL_HIST
    /\ <<view.code, view.period>> \in view.clearedHist
    /\ view.code \in view.clearedFund

----------------------------------------------------------------------------
(* Claims on concurrent sessions (SpecConc) *)

\* C4: whatever the interleaving of the sessions' reads with a write of a newly
\* fetched tuple, the tuple a reader holds is one fetch's whole result: its
\* flag is that of its table (real table, flag True; simulated, flag False).
C4_ReaderSeesWholeSnapshot ==
    \A s \in Sessions :
        sess[s].pc \in {"got", "changed"} =>
            LET t == heap[sess[s].ref] IN
            /\ t # Free
            /\ t.is_real <=> t.df.kind = "real"
            /\ ~t.is_real <=> t.df.kind = "sim"

\* C4 witness: one session holds the snapshot from before a write, another the
\* snapshot written
C4_Witness ==
    \E s1, s2 \in Sessions :
        /\ sess[s1].pc = "got" /\ sess[s2].pc = "got"
        /\ heap[sess[s1].ref].is_real /\ ~heap[sess[s2].ref].is_real
        /\ store.present /\ heap[store.ref] = heap[sess[s2].ref]

\* C8: what a reader does to the table it was given does not reach the cache:
\* the cached tuple, and the tuple every reader is handed, carry no column a
\* reader added.
C8_ReadersGetCopies ==
    /\ store.present => heap[store.ref].extra = {}
    /\ \A s \in Sessions : sess[s].pc = "got" => heap[sess[s].ref].extra = {}

\* C8 witness: a reader changed its table, and a later reader of the same
\* entry was handed the table unchanged
C8_Witness ==
    \E s1, s2 \in Sessions :
        /\ sess[s1].pc = "changed" /\ heap[sess[s1].ref].extra # {}
        /\ sess[s2].pc = "got" /\ heap[sess[s2].ref].extra = {}
        /\ heap[sess[s2].ref].df = heap[sess[s1].ref].df

----------------------------------------------------------------------------
(* Claims on the fetchers' bodies (SpecFetch) *)

\* C2: whatever the provider answers (exception, timeout, empty table, table
\* with missing columns, success) and whatever stock code the operator typed,
\* get_a_stock_data and get_fundamental_data_dynamic return a value: no
\* provider fault is raised past them.
C2_FetchersNeverRaise ==
    out # NoCall => out.status = "returned"

\* C2 witness: the provider raised and get_a_stock_data returned its fallback
C2_Witness ==
    /\ inp.fn = "hist" /\ inp.ans.kind = "exception" /\ inp.code = "abc"
    /\ out # NoCall /\ out.status = "returned" /\ ~out.is_real

Linear(waits) == \A k \in 1..Len(waits) : waits[k] = k * waits[1]

\* C5, as claimed: every fetch whose provider call fails is retried a fixed
\* number of times (so the failing call is made at least twice), the waits
\* between the attempts grow linearly (the k-th wait is k times the first), and
\* after the last failed attempt the fetcher returns its fallback result.
C5_RetriedWithLinearBackoff ==
    out # NoCall =>
      /\ (inp.fn = "hist" /\ inp.ans.kind \in {"exception", "timeout"}) =>
            /\ out.calls.hist >= 2
            /\ Len(out.waits) = out.calls.hist - 1
            /\ Linear(out.waits)
            /\ ~out.is_real
      /\ (inp.fn = "fund" /\ inp.info # "exception"
            /\ \A i \in 1..FINA_ATTEMPTS : inp.fina[i] = "exception") =>
            /\ out.calls.fina >= 2
            /\ Len(out.waits) = out.calls.fina - 1
            /\ Linear(out.waits)
            /\ out.kind = "fallback"

\* what the caller receives, and the calls and waits made on the way
HistOutcome(r) == <<r.status, r.df.kind, r.df.rows, r.is_real, r.calls, r.waits>>
FundOutcome(r) == <<r.status, r.kind, r.name, r.metrics, r.cmp, r.calls, r.waits>>

\* C6, as claimed: at the fetch sites of stock_zh_a_hist and of
\* stock_financial_analysis_indicator (the retry loop and the comparison loop)
\* an empty table from the provider is handled as an exception from it is: with
\* the answer at one site changed from "empty" to "exception", the same calls
\* and waits are made and the same result is returned.
C6_EmptyHandledAsException ==
    out # NoCall =>
      /\ (inp.fn = "hist" /\ inp.ans.kind = "empty") =>
            HistOutcome(out) =
               HistOutcome(get_a_stock_data(inp.code, inp.period,
                              [inp.ans EXCEPT !.kind = "exception"], inp.rnd))
      /\ inp.fn = "fund" =>
            \A i \in 1..FINA_ATTEMPTS : inp.fina[i] = "empty" =>
               FundOutcome(out) =
                  FundOutcome(get_fundamental_data_dynamic(inp.code, inp.info,
                                 [inp.fina EXCEPT ![i] = "exception"], inp.cmp))
      /\ inp.fn = "fund" =>
            \A i \in 1..Len(CmpStocks) : inp.cmp[i] = "empty" =>
               FundOutcome(out) =
                  FundOutcome(get_fundamental_data_dynamic(inp.code, inp.info,
                                 inp.fina, [inp.cmp EXCEPT ![i] = "exception"]))

----------------------------------------------------------------------------
(* Claims on ai_price_prediction (SpecPredict) *)

\* C10, as claimed: whenever the table get_a_stock_data returned has 60 rows
\* or more, ai_price_prediction does not answer "insufficient data".
C10_SixtyRowsSuffice ==
    (out # NoCall /\ out.df.rows >= MIN_PRED_ROWS) =>
        out.pred.conclusion # "insufficient_data"

(***************************************************************************)
(* SpecBand: the table of predictions and its error band                   *)
(***************************************************************************)
\* prices are whole numbers of cents; the three price columns of the
\* prediction table are kept in hundredths of a cent, so that the products
\* predicted_prices * 1.05 and predicted_prices * 0.95 are exact
BAND_SCALE == 100
UPPER_BOUND_PCT == 105
LOWER_BOUND_PCT == 95

\* LinearRegression.predict: intercept_ + coef_ . x.  The eight scaled
\* features of the i-th of the last predict_days rows are folded into one
\* trend feature x = i; coef and intercept are whatever fit() found
MaxCoef == 2
Coefs == (0 - MaxCoef)..MaxCoef
Intercepts == {0, 30, 1000}

model_predict(coef, intercept, predict_days) ==
    [i \in 1..predict_days |-> intercept + coef * i]

\* prediction_result = pd.DataFrame({...}): one row per predicted price
prediction_result(predicted_prices) ==
    [i \in DOMAIN predicted_prices |->
        [Predicted_Close |-> predicted_prices[i] * BAND_SCALE,
         Upper_Bound |-> predicted_prices[i] * UPPER_BOUND_PCT,
         Lower_Bound |-> predicted_prices[i] * LOWER_BOUND_PCT]]

\* ai_price_prediction with the table it returns: None on every early
\* return, prediction_result otherwise
ai_price_prediction_table(df, predict_days, fit, coef, intercept) ==
    LET pred == ai_price_prediction(df, predict_days, fit) IN
    IF pred.result = "table"
    THEN [pred EXCEPT !.result =
            prediction_result(model_predict(coef, intercept, predict_days))]
    ELSE [pred EXCEPT !.result = << >>]

BandInit ==
    /\ \E p \in Periods, d \in PredictDays, f \in FitAnswers,
          c \in Coefs, b \in Intercepts :
         \E a \in HistAnswers(DEFAULT_CODE, p, {PeriodDays(p)}) :
            /\ a.data <= 1
            /\ a.kind \in {"exception", "ok"}
            /\ inp = [fn |-> "band", period |-> p, ans |-> a, rnd |-> 1,
                      predict_days |-> d, fit |-> f, coef |-> c, intercept |-> b]
    /\ out = NoCall
    /\ CacheInit /\ ConcInit

\* main: df, is_real = get_a_stock_data(...);
\* render_ai_prediction: prediction_result, conclusion = ai_price_prediction(...)
PredictBand ==
    /\ inp.fn = "band" /\ out = NoCall
    /\ LET got == get_a_stock_data(DEFAULT_CODE, inp.period, inp.ans, inp.rnd)
       IN out' = [fn |-> "band", df |-> got.df,
                  pred |-> ai_price_prediction_table(got.df, inp.predict_days,
                               inp.fit, inp.coef, inp.intercept)]
    /\ UNCHANGED <<inp, cacheVars, concVars>>

BandNext == PredictBand

SpecBand == BandInit /\ [][BandNext]_vars

(***************************************************************************)
(* Claims on the prediction table (SpecBand)                               *)
(***************************************************************************)
\* C11, as claimed: in every row of every prediction table ai_price_prediction
\* returns, Lower_Bound <= Predicted_Close <= Upper_Bound, whatever the
\* regression predicts.
C11_PredictedInsideBand ==
    out # NoCall =>
        \A i \in DOMAIN out.pred.result :
            /\ out.pred.result[i].Lower_Bound <= out.pred.result[i].Predicted_Close
            /\ out.pred.result[i].Predicted_Close <= out.pred.result[i].Upper_Bound

(***************************************************************************)
(* SpecRisk: calculate_risk_metrics_dynamic and render_risk_assessment      *)
(***************************************************************************)
\* annualised volatility is kept in hundredths of a percent, the precision of
\* the displayed f"{annual_volatility:.2%}": 0.6 is 6000
MIN_RISK_ROWS == 20
VOL_EXTREME == 6000
VOL_HIGH == 4000
VOL_MEDIUM == 2000
MIN_BETA_LEN == 10

\* returns.std() * np.sqrt(250) of the table's closes: every side of every
\* threshold
Volatilities ==
    {0, VOL_MEDIUM - 1, VOL_MEDIUM, VOL_MEDIUM + 1, VOL_HIGH - 1, VOL_HIGH,
     VOL_HIGH + 1, VOL_EXTREME - 1, VOL_EXTREME, VOL_EXTREME + 1, 2 * VOL_EXTREME}

\* what ak.stock_zh_a_hist("000688") answers: it raises, an empty table, a
\* table without the column, or a table of so many rows
IndexAnswers ==
    {[kind |-> k, rows |-> 0] : k \in {"exception", "empty", "no_column"}}
    \cup {[kind |-> "ok", rows |-> r] : r \in {MIN_BETA_LEN + 1, MIN_BETA_LEN + 2}}

risk_level_inclusive(annual_volatility) ==
    IF annual_volatility >= VOL_EXTREME THEN "extreme"
    ELSE IF annual_volatility >= VOL_HIGH THEN "high"
    ELSE IF annual_volatility >= VOL_MEDIUM THEN "medium"
    ELSE "low"

\* the if / elif chain on annual_volatility
risk_level(annual_volatility) ==
    IF annual_volatility > VOL_EXTREME THEN "extreme"
    ELSE IF annual_volatility > VOL_HIGH THEN "high"
    ELSE IF annual_volatility > VOL_MEDIUM THEN "medium"
    ELSE "low"

\* the try block around the index fetch: index_returns is
\* index_df[...].pct_change().dropna(), one row fewer than index_df, and
\* returns one fewer than df
beta(df, idx) ==
    IF idx.kind # "ok" THEN "N/A"
    ELSE LET min_len == IF df.rows - 1 < idx.rows - 1
                        THEN df.rows - 1 ELSE idx.rows - 1
         IN IF min_len > MIN_BETA_LEN THEN "value" ELSE "N/A"

\* the dictionary returned; "value" stands for a formatted number
calculate_risk_metrics_dynamic(df, annual_volatility, idx) ==
    IF df.rows < MIN_RISK_ROWS
    THEN [annual_volatility |-> "insufficient_data",
          max_drawdown |-> "insufficient_data",
          sharpe_ratio |-> "insufficient_data",
          risk_level |-> "insufficient_data",
          beta |-> "insufficient_data"]
    ELSE [annual_volatility |-> "value",
          max_drawdown |-> "value",
          sharpe_ratio |-> "value",
          risk_level |-> risk_level(annual_volatility),
          beta |-> beta(df, idx)]

\* the if / elif / else chain that picks the advice block
advice_block(risk_metrics) ==
    IF risk_metrics.risk_level = "extreme" THEN "error_high_risk"
    ELSE IF risk_metrics.risk_level = "high" THEN "warning_medium_high_risk"
    ELSE IF risk_metrics.risk_level = "medium" THEN "info_medium_risk"
    ELSE "success_low_risk"

render_risk_assessment_dynamic(df, annual_volatility, idx) ==
    LET risk_metrics == calculate_risk_metrics_dynamic(df, annual_volatility, idx)
    IN [risk_metrics |-> risk_metrics, advice |-> advice_block(risk_metrics)]

RiskRows == {1, MIN_RISK_ROWS - 1, MIN_RISK_ROWS, MIN_RISK_ROWS + 1, 240}

RiskInit ==
    /\ \E p \in Periods, v \in Volatilities, x \in IndexAnswers :
         \E a \in HistAnswers(DEFAULT_CODE, p, RiskRows) :
            /\ a.data <= 1
            /\ inp = [fn |-> "risk", period |-> p, ans |-> a, rnd |-> 1,
                      annual_volatility |-> v, idx |-> x]
    /\ out = NoCall
    /\ CacheInit /\ ConcInit

\* main: df, is_real = get_a_stock_data(...); render_risk_assessment_dynamic(df)
AssessRisk ==
    /\ inp.fn = "risk" /\ out = NoCall
    /\ LET got == get_a_stock_data(DEFAULT_CODE, inp.period, inp.ans, inp.rnd)
           shown == render_risk_assessment_dynamic(got.df, inp.annual_volatility,
                                                   inp.idx)
       IN out' = [fn |-> "risk", df |-> got.df, is_real |-> got.is_real,
                  risk_metrics |-> shown.risk_metrics, advice |-> shown.advice]
    /\ UNCHANGED <<inp, cacheVars, concVars>>

RiskNext == AssessRisk

SpecRisk == RiskInit /\ [][RiskNext]_vars

(***************************************************************************)
(* Claims on the risk assessment (SpecRisk)                                *)
(***************************************************************************)
\* C12: a table of fewer than 20 rows gives "insufficient data" for all five
\* metrics; otherwise the level is extreme iff v > 60%, high iff
\* 40% < v <= 60%, medium iff 20% < v <= 40%, low iff v <= 20%, and the advice
\* block shown for each of these four levels is the one that prints its range.
C12_LevelMatchesRanges ==
    out # NoCall =>
        LET v == inp.annual_volatility
            m == out.risk_metrics
        IN IF out.df.rows < MIN_RISK_ROWS
           THEN /\ m.annual_volatility = "insufficient_data"
                /\ m.max_drawdown = "insufficient_data"
                /\ m.sharpe_ratio = "insufficient_data"
                /\ m.risk_level = "insufficient_data"
                /\ m.beta = "insufficient_data"
           ELSE /\ m.risk_level \in {"extreme", "high", "medium", "low"}
                /\ (m.risk_level = "extreme") <=> (v > 6000)
                /\ (m.risk_level = "high") <=> (4000 < v /\ v <= 6000)
                /\ (m.risk_level = "medium") <=> (2000 < v /\ v <= 4000)
                /\ (m.risk_level = "low") <=> (v <= 2000)
                /\ (m.risk_level = "extreme") => (out.advice = "error_high_risk")
                /\ (m.risk_level = "high") => (out.advice = "warning_medium_high_risk")
                /\ (m.risk_level = "medium") => (out.advice = "info_medium_risk")
                /\ (m.risk_level = "low") => (out.advice = "success_low_risk")

\* C12 witness: a real table of exactly 20 rows whose volatility is exactly
\* 60% has been classified (high, not extreme)
C12_Witness ==
    /\ out # NoCall /\ out.is_real
    /\ out.df.rows = MIN_RISK_ROWS
    /\ inp.annual_volatility = VOL_EXTREME
    /\ out.risk_metrics.risk_level = "high"

\* C13, as claimed: the low-risk advice block is shown only when the computed
\* risk level is low; for every other level, "insufficient data" included, it
\* is not shown.
C13_LowAdviceOnlyForLow ==
    (out # NoCall /\ out.advice = "success_low_risk") =>
        out.risk_metrics.risk_level = "low"

====
